---- MODULE Spec2Model ----
(***************************************************************************)
(* Model of the OceanOptics STS-VIS driver (src/OceanOptics/STS.py).       *)
(*                                                                         *)
(* The driver object keeps the packet fields shared by all operations      *)
(* (immediateData, immediateDataLength, regarding, bytesRemaining); every  *)
(* public operation adjusts them, builds a frame with _build_packet and    *)
(* exchanges it with the device through _send_command_to_device or         *)
(* _query_device.  One action models one call of a public operation, from  *)
(* entry to return or raise.  xfers keeps the calls the latest operation    *)
(* made to the two transport functions, each with its USB transfers.       *)
(*                                                                         *)
(* Bytes are naturals 0..255, byte strings are sequences (Python index i   *)
(* is TLA+ index i+1).  An optional value is <<>> (None) or <<v>>.         *)
(***************************************************************************)
EXTENDS Integers, Sequences, FiniteSets, TLC

VARIABLES
    immediateData,        \* self.immediateData, 16 bytes
    immediateDataLength,  \* self.immediateDataLength
    regarding,            \* self.regarding, 4 bytes
    bytesRemaining,       \* self.bytesRemaining, 4 bytes little-endian
    call,                 \* the latest public call: [op, args, line]
    xfers,                \* transport calls of the latest call, in order
    outcome,              \* "return" or the name of the exception raised
    ret,                  \* value returned by the latest call, None if none
    printed,              \* messages printed by the latest call, in order
    ncalls,               \* number of public calls made so far
    threads               \* callers running concurrently on the object, each
                          \* with its position in the operation it runs

vars == <<immediateData, immediateDataLength, regarding, bytesRemaining,
          call, xfers, outcome, ret, printed, ncalls, threads>>

----------------------------------------------------------------------------
(* Bounds of the model *)

\* longest extended payload given to _build_packet in the codec specification
MaxPayload == 70

\* number of public calls made on the driver object in one behaviour
MaxCalls == 2

----------------------------------------------------------------------------
(* Python values *)

None == <<>>

Some(v) == <<v>>

Zeros(n) == [i \in 1..n |-> 0]

\* a[lo:hi] = vals (numpy slice assignment, Python indices)
SetSlice(a, lo, vals) ==
    [i \in 1..Len(a) |-> IF i > lo /\ i <= lo + Len(vals) THEN vals[i - lo] ELSE a[i]]

\* a[idx] = v (Python index)
SetAt(a, idx, v) == [a EXCEPT ![idx + 1] = v]

\* struct.pack('<I', v)
pack_I(v) ==
    <<v % 256, (v \div 256) % 256, (v \div 65536) % 256, (v \div 16777216) % 256>>

----------------------------------------------------------------------------
(* Packet fields set once by __init__ and never changed *)

headerTop == <<193, 192>>

protocolVersion == <<17, 0>>

flags == <<0, 0>>

errorNumber == <<0, 0>>

checksumType == 0

checksum == Zeros(16)

footer == <<197, 196, 195, 194>>

\* endpoint addresses
EP1_out == 1

EP1_in == 129

EP2_out == 2

EP2_in == 130

\* the mutable packet fields, as one record handed to the codec
Fields(imm, immLen, reg, bytesRem) ==
    [immediateData |-> imm, immediateDataLength |-> immLen,
     regarding |-> reg, bytesRemaining |-> bytesRem]

Self == Fields(immediateData, immediateDataLength, regarding, bytesRemaining)

----------------------------------------------------------------------------
(* _build_packet *)

RECURSIVE PadTo44_block(_)
\* faulty variant of PadTo44: pads to the end of the block
PadTo44_block(package) ==
    IF Len(package) % 64 # 0 THEN PadTo44_block(Append(package, 0)) ELSE package

RECURSIVE PadTo44(_)
\* while len(package) % 64 != 44: package += '\x00'
PadTo44(package) ==
    IF Len(package) % 64 # 44 THEN PadTo44(Append(package, 0)) ELSE package

\* faulty variant of build_packet: the payload is not padded
build_packet_nopad(self, commandtype, flags_up, data) ==
    LET head == <<headerTop[1], headerTop[2], protocolVersion[1], protocolVersion[2],
                  flags[1] + flags_up, flags[2], errorNumber[1], errorNumber[2]>>
                \o pack_I(commandtype)
                \o <<self.regarding[1], self.regarding[2], self.regarding[3],
                     self.regarding[4], 0, 0, 0, 0, 0, 0, checksumType,
                     self.immediateDataLength>>
                \o self.immediateData
                \o self.bytesRemaining
        body == IF data # None THEN head \o data[1] ELSE head
    IN  body \o checksum \o footer

build_packet(self, commandtype, flags_up, data) ==
    LET head == <<headerTop[1], headerTop[2], protocolVersion[1], protocolVersion[2],
                  flags[1] + flags_up, flags[2], errorNumber[1], errorNumber[2]>>
                \o pack_I(commandtype)
                \o <<self.regarding[1], self.regarding[2], self.regarding[3],
                     self.regarding[4], 0, 0, 0, 0, 0, 0, checksumType,
                     self.immediateDataLength>>
                \o self.immediateData
                \o self.bytesRemaining
        body == IF data # None THEN PadTo44(head \o data[1]) ELSE head
    IN  body \o checksum \o footer

\* _update_bytes_remaining: the new value of self.bytesRemaining
update_bytes_remaining(change) ==
    LET val == change + 20
    IN  <<val % 256, (val \div 256) % 256, (val \div 65536) % 256,
          (val \div 16777216) % 256>>

----------------------------------------------------------------------------
(* The device: the frames self._dev.read hands back *)

\* a 64-byte frame from the device: flag byte, error byte, immediate-data
\* length, bytes-remaining; its immediate data is 17, 18, ... and, when an
\* extended payload follows, its last 20 bytes are the payload's first 20
DevFrame(fl, err, n, bytesLeft) ==
    <<193, 192, 17, 0, fl, 0, err, 0>> \o Zeros(4)
    \o Zeros(10) \o <<0, n>>
    \o [i \in 1..16 |-> 16 + i]
    \o pack_I(bytesLeft)
    \o (IF bytesLeft = 20 THEN checksum \o footer ELSE [i \in 1..20 |-> 100 + i])

\* the k-th 64-byte block that follows a frame announcing an extended payload
DevBlock(k) == [i \in 1..64 |-> (120 + 64 * (k - 1) + i) % 256]

\* blocks the device has ready after a frame that announces a payload
DevBlocks == [k \in 1..3 |-> DevBlock(k)]

\* frames the device answers with: acknowledgement (RESPONSE and ACK bits),
\* responses with 2 and with 12 bytes of immediate data, response announcing
\* an extended payload, negative acknowledgements "no such information" (12)
\* and "deferred" (255)
FrameAck == DevFrame(3, 0, 0, 20)

FrameResp2 == DevFrame(1, 0, 2, 20)

FrameResp12 == DevFrame(1, 0, 12, 20)

FrameRespExt == DevFrame(1, 0, 0, 192)

\* response announcing 84 bytes: a payload of 64 and the 20 of the trailer
FrameRespExt84 == DevFrame(1, 0, 0, 84)

FrameNack12 == DevFrame(8, 12, 0, 20)

FrameDeferred == DevFrame(8, 255, 0, 20)

\* what the device delivers to the successive reads of one exchange: the
\* frame for the first read, the frame for a second read, then the blocks
\* the device is detached: the first transfer attempted raises
\* usb.core.USBError and delivers nothing
Detached == << <<>> >>

\* the USB transfer fails with usb.core.USBError
UsbFails(resp) == resp[1] = <<>>

\* the device answers; Answering \cup {Detached} is what a call can meet
Answering ==
    { <<f[1], f[2]>> \o DevBlocks :
        f \in { <<FrameAck, FrameResp2>>, <<FrameResp12, FrameAck>>,
                <<FrameNack12, FrameRespExt>>, <<FrameNack12, FrameDeferred>>,
                <<FrameDeferred, FrameNack12>>, <<FrameRespExt, FrameAck>>,
                <<FrameAck, FrameRespExt84>> } }

DevAnswers == Answering \cup {Detached}

----------------------------------------------------------------------------
(* Transport *)

LineOK(line) == line = 1 \/ line = 2

OutEP(line) == IF line = 1 THEN EP1_out ELSE EP2_out

InEP(line) == IF line = 1 THEN EP1_in ELSE EP2_in

Write(line, bytes) == [t |-> "write", ep |-> OutEP(line), bytes |-> bytes]

\* _read_device: one read of up to 64 bytes on the line's IN endpoint
read_device(line, frame) == [t |-> "read", ep |-> InEP(line), bytes |-> frame]

\* _error_management: the message printed for an error number; the function
\* then raises STS_Error whatever the number
error_management(error) ==
    CASE error = 0 -> "No detectable errors"
      [] error = 1 -> "Invalid/unsupported protocol"
      [] error = 2 -> "Unknown message type"
      [] error = 3 -> "Bad checksum"
      [] error = 4 -> "Message too large"
      [] error = 5 -> "Payload length does not match message type"
      [] error = 6 -> "Payload data invalid"
      [] error = 7 -> "Device not ready for given message type"
      [] error = 8 -> "Unknown checksum type"
      [] error = 9 -> "Device reset unexpectedly"
      [] error = 10 -> "Too many buses"
      [] error = 11 -> "Out of memory"
      [] error = 12 -> "Command is valid, but desired information does not exist."
      [] error = 13 -> "Int Device Error. May be unrecoverable."
      [] error = 100 -> "Could not decrypt properly"
      [] error = 101 -> "Firmware layout invalid"
      [] error = 102 -> "Data packet was wrong size (not 64 bytes)"
      [] error = 103 -> "Hardware revision not compatible with firmware"
      [] error = 104 -> "Existing flash map not compatible with firmware"
      [] error = 255 -> "Operation/Response Deferred"
      [] OTHER -> "Error Undetermined"

\* the text STS_Error.__init__ prints
STS_Error_text == "Device sent back error"

\* faulty variant of internal_read: starts at the length byte
internal_read_from_length(read, bytes_for_reading) ==
    [ab \in 1..bytes_for_reading |-> read[23 + ab]]

\* _internal_read: the first bytes_for_reading bytes of the immediate data
internal_read(read, bytes_for_reading) ==
    [ab \in 1..bytes_for_reading |-> read[24 + ab]]

\* faulty variant of external_read: the frame already read is counted as one
\* of the bytes_for_reading/64 blocks
external_read_counts_first(line, read, bytes_for_reading, rest) ==
    LET to_read == (bytes_for_reading \div 64) - 1
        buf == read \o [i \in 1..(64 * to_read) |-> rest[((i - 1) \div 64) + 1][((i - 1) % 64) + 1]]
    IN  [io |-> [kk \in 1..to_read |-> read_device(line, rest[kk])],
         exc |-> "none",
         data |-> [ll \in 1..(to_read * 64) |-> buf[44 + ll]]]

\* faulty variant of external_indices: copies as many bytes as were received
external_indices_whole(to_read) == [ll \in 1..(to_read * 64 + 64) |-> 44 + (ll - 1)]

\* _external_read, lines 953-954: the indices 44 + ll into read, for ll in
\* range(to_read*64)
external_indices(to_read) == [ll \in 1..(to_read * 64) |-> 44 + (ll - 1)]

\* _external_read: reads bytes_for_reading/64 more blocks (rest is what the
\* device delivers next) and copies 64 bytes per block from offset 44 on; an
\* index at or beyond len(read) raises IndexError
external_read(line, read, bytes_for_reading, rest) ==
    LET to_read == bytes_for_reading \div 64
        got == [kk \in 1..to_read |-> read_device(line, rest[kk])]
        buf == read \o [i \in 1..(64 * to_read) |-> rest[((i - 1) \div 64) + 1][((i - 1) % 64) + 1]]
        idx == external_indices(to_read)
        inside == \A ll \in 1..Len(idx) : idx[ll] < Len(buf)
    IN  [io |-> got,
         exc |-> IF inside THEN "none" ELSE "IndexError",
         data |-> IF inside THEN [ll \in 1..Len(idx) |-> buf[idx[ll] + 1]] ELSE <<>>]

\* the exception object _error_management raises for an error number:
\* STS_Error('Device %s sent back error' % (self._dev, )); the class keeps
\* nothing but the text handed to it
STS_Error(error) == [type |-> "STS_Error", message |-> STS_Error_text]

\* a transport call as recorded in xfers; raised is the exception object when
\* the call ended in a device error (the frame read last holds its number)
Xfer(kind, command, line, data, packet, evs, exc, msgs, r) ==
    [kind |-> kind, command |-> command, line |-> line, data |-> data,
     packet |-> packet, io |-> evs, exc |-> exc, printed |-> msgs, ret |-> r,
     raised |-> IF exc = "STS_Error" THEN Some(STS_Error(evs[Len(evs)].bytes[7])) ELSE None]

\* faulty variant of SendReads: keeps reading until an ACK shows up
SendReads_third(line, resp) ==
    IF resp[1][5] # 3
    THEN IF resp[2][5] # 3
         THEN [io |-> <<read_device(line, resp[1]), read_device(line, resp[2]),
                        read_device(line, resp[1])>>,
               exc |-> "STS_Error",
               printed |-> <<error_management(resp[2][7]), STS_Error_text>>]
         ELSE [io |-> <<read_device(line, resp[1]), read_device(line, resp[2])>>,
               exc |-> "none", printed |-> <<>>]
    ELSE [io |-> <<read_device(line, resp[1])>>, exc |-> "none", printed |-> <<>>]

\* faulty variant of IsAck: looks at the ACK bit (bit 1) alone
IsAck_bit(read) == (read[5] \div 2) % 2 = 1

\* _send_command_to_device, lines 839 and 842: read[4] is 3 (RESPONSE and
\* ACK bits and nothing else)
IsAck(read) == read[5] = 3

\* _query_device, lines 868 and 871: read[4] is 1 (RESPONSE bit and nothing
\* else)
IsResponse(read) == read[5] = 1

\* _send_command_to_device, lines 837-844: the reads after a non-reset command
SendReads(line, resp) ==
    IF ~IsAck(resp[1])
    THEN IF ~IsAck(resp[2])
         THEN [io |-> <<read_device(line, resp[1]), read_device(line, resp[2])>>,
               exc |-> "STS_Error",
               printed |-> <<error_management(resp[2][7]), STS_Error_text>>]
         ELSE [io |-> <<read_device(line, resp[1]), read_device(line, resp[2])>>,
               exc |-> "none", printed |-> <<>>]
    ELSE [io |-> <<read_device(line, resp[1])>>, exc |-> "none", printed |-> <<>>]

\* faulty variant of ResetSkipsRead
ResetSkipsRead_never(command) == FALSE

\* _send_command_to_device, line 837: no read after the reset command
ResetSkipsRead(command) == command = 0

\* struct.pack('<B', v) takes 0 <= v <= 255 and raises struct.error otherwise
Packable(self, data) ==
    /\ \A i \in 1..16 : self.immediateData[i] \in 0..255
    /\ self.immediateDataLength \in 0..255
    /\ data # None => \A i \in 1..Len(data[1]) : data[1][i] \in 0..255

\* faulty variant of packet_block: n stays 0, every write sends the first block
packet_block_first(packet, ab) == SubSeq(packet, 1, 64)

\* _send_command_to_device, lines 813-816: packet[n:n+64] with n = 64*ab, for
\* the pass ab = 1, 2, ... of the loop
packet_block(packet, ab) == SubSeq(packet, 64 * (ab - 1) + 1, 64 * ab)

\* _send_command_to_device: payload is the flag, data the optional payload,
\* resp what the device delivers to the reads
send_command_to_device(self, command, line, payload, data, resp) ==
    LET withData == payload /\ data # None
        packet == IF payload
                  THEN (IF data = None THEN None ELSE Some(build_packet(self, command, 4, data)))
                  ELSE Some(build_packet(self, command, 4, None))
        sends == IF withData THEN Len(packet[1]) \div 64 ELSE 0
        writes == IF payload
                  THEN [ab \in 1..sends |->
                          Write(line, packet_block(packet[1], ab))]
                  ELSE <<Write(line, packet[1])>>
        msgs == IF payload /\ data = None THEN <<"No Payload Present">> ELSE <<>>
        rd == SendReads(line, resp)
    IN  IF ~(payload /\ data = None) /\ ~Packable(self, data)
        THEN Xfer("send", command, line, data, None, <<>>, "struct.error", <<>>, None)
        ELSE IF ~LineOK(line) /\ (packet # None \/ ~ResetSkipsRead(command))
        THEN Xfer("send", command, line, data, packet, <<>>, "NameError",
                  msgs \o <<"Please enter correct line choice. 1 or 2">>, None)
        ELSE IF UsbFails(resp) /\ (packet # None \/ ~ResetSkipsRead(command))
        THEN Xfer("send", command, line, data, packet,
                  IF packet # None THEN <<writes[1]>> ELSE <<>>, "USBError", msgs, None)
        ELSE IF ResetSkipsRead(command)
        THEN Xfer("send", command, line, data, packet, writes, "none", msgs, None)
        ELSE Xfer("send", command, line, data, packet, writes \o rd.io, rd.exc,
                  msgs \o rd.printed, None)

\* faulty variant of RetryFrame: a second frame that is no response either is
\* dropped, so the error is looked up in the first frame
RetryFrame_first(resp) == IF resp[2][5] = 1 THEN resp[2] ELSE resp[1]

\* _query_device, line 870: the frame in read after the second _read_device
RetryFrame(resp) == resp[2]

\* _query_device: resp is what the device delivers to the reads
query_device(self, command, line, resp) ==
    LET packet == build_packet(self, command, 0, None)
        w == <<Write(line, packet)>>
        r1 == read_device(line, resp[1])
        r2 == read_device(line, resp[2])
        read == RetryFrame(resp)
        rest == SubSeq(resp, 3, Len(resp))
        bytes_left == read[41] + 256 * (read[42] + 256 * (read[43] + 256 * read[44]))
        ext == external_read(line, read, bytes_left, rest)
    IN  IF ~Packable(self, None)
        THEN Xfer("query", command, line, None, None, <<>>, "struct.error", <<>>, None)
        ELSE IF ~LineOK(line)
        THEN Xfer("query", command, line, None, Some(packet), <<>>, "NameError",
                  <<"Please enter correct line choice. 1 or 2">>, None)
        ELSE IF UsbFails(resp)
        THEN Xfer("query", command, line, None, Some(packet), w, "USBError", <<>>, None)
        ELSE IF ~IsResponse(resp[1])
        THEN IF ~IsResponse(read)
             THEN Xfer("query", command, line, None, Some(packet), w \o <<r1, r2>>,
                       "STS_Error", <<error_management(read[7]), STS_Error_text>>, None)
             ELSE IF bytes_left = 20
             THEN Xfer("query", command, line, None, Some(packet), w \o <<r1, r2>>,
                       "none", <<>>, Some(internal_read(read, read[24])))
             ELSE Xfer("query", command, line, None, Some(packet),
                       w \o <<r1, r2>> \o ext.io, ext.exc, <<>>,
                       IF ext.exc = "none" THEN Some(ext.data) ELSE None)
        ELSE Xfer("query", command, line, None, Some(packet), w \o <<r1>>, "none",
                  <<>>, None)

----------------------------------------------------------------------------
(* Public operations: common parts *)

Lines == {1, 2, 3}

Call(op, args, line) == [op |-> op, args |-> args, line |-> line]

\* the state after a call: packet fields self2, transport calls xs, outcome
\* out ("return" or an exception), returned value r, printed messages msgs
Done(c, self2, xs, out, r, msgs) ==
    /\ ncalls' = ncalls + 1
    /\ immediateData' = self2.immediateData
    /\ immediateDataLength' = self2.immediateDataLength
    /\ regarding' = self2.regarding
    /\ bytesRemaining' = self2.bytesRemaining
    /\ call' = c
    /\ xfers' = xs
    /\ outcome' = out
    /\ ret' = r
    /\ printed' = msgs
    /\ UNCHANGED threads

\* a setter that fills the packet fields (s1), sends one command without
\* payload and then puts immediateDataLength back to 0; an exception of the
\* send leaves the fields as filled
SendAndClear(c, s1, command, resp) ==
    LET x == send_command_to_device(s1, command, c.line, FALSE, None, resp)
    IN  IF x.exc = "none"
        THEN Done(c, [s1 EXCEPT !.immediateDataLength = 0], <<x>>, "return", None, x.printed)
        ELSE Done(c, s1, <<x>>, x.exc, None, x.printed)

defaults == Fields(Zeros(16), 0, <<0, 0, 0, 0>>, <<20, 0, 0, 0>>)

\* __init__ sets the packet fields and asks for the serial number on line 1;
\* the object exists only when that call returned
Init ==
    \E resp \in DevAnswers :
        LET x == query_device(defaults, 256, 1, resp)
        IN  /\ x.exc = "none"
            /\ x.ret # None
            /\ immediateData = defaults.immediateData
            /\ immediateDataLength = defaults.immediateDataLength
            /\ regarding = defaults.regarding
            /\ bytesRemaining = defaults.bytesRemaining
            /\ call = Call("__init__", <<0>>, 1)
            /\ xfers = <<x>>
            /\ outcome = "return"
            /\ ret = None
            /\ printed = <<>>
            /\ ncalls = 0
            /\ threads = <<>>

----------------------------------------------------------------------------
(* General control operations *)

\* faulty variant of reset_catches: no except clause
reset_catches_nothing(exc) == FALSE

\* reset_device, lines 116-117: except usb.core.USBError: pass
reset_catches(exc) == exc = "USBError"

\* reset_device: USBError of the write is swallowed, nothing else is
reset_device(line, resp) ==
    LET x == send_command_to_device(Self, 0, line, FALSE, None, resp)
    IN  Done(Call("reset_device", <<>>, line), Self, <<x>>,
             IF x.exc = "none" \/ reset_catches(x.exc) THEN "return" ELSE x.exc,
             None, x.printed)

\* reset_defaults, simulate_trigger_pulse, reprogramming_mode: one command
\* without data
PlainCommands ==
    { <<"reset_defaults", 1>>,
      <<"reprogramming_mode", 1048320>>,
      <<"simulate_trigger_pulse", 1114400>> }

plain_command(op, line, resp) ==
    LET x == send_command_to_device(Self, op[2], line, FALSE, None, resp)
    IN  Done(Call(op[1], <<>>, line), Self, <<x>>,
             IF x.exc = "none" THEN "return" ELSE x.exc, None, x.printed)

\* faulty variant of alias_valid: one character too many
alias_valid_17(stringname) == Len(stringname) <= 17

\* set_alias, line 181
alias_valid(stringname) == Len(stringname) <= 16

set_alias(stringname, line, resp) ==
    LET c == Call("set_alias", <<stringname>>, line)
    IN  IF alias_valid(stringname)
        THEN SendAndClear(c,
                 [Self EXCEPT !.immediateData = SetSlice(@, 0, stringname),
                              !.immediateDataLength = Len(stringname)],
                 528, resp)
        ELSE Done(c, Self, <<>>, "return", None,
                  <<"Alias Length cannot be longer than 16 characters">>)

\* configure_status_led, line 268
led_valid(command) == (command = 1) \/ (command = 2)

configure_status_led(command, line, resp) ==
    LET c == Call("configure_status_led", <<command>>, line)
    IN  IF led_valid(command)
        THEN SendAndClear(c,
                 [Self EXCEPT !.immediateData = SetAt(SetAt(@, 0, 0), 0, command),
                              !.immediateDataLength = 2],
                 4112, resp)
        ELSE Done(c, Self, <<>>, "return", None,
                  <<"Please enter either 1 or 2 for status led commands",
                    "Refer to the software documentation for more information">>)

----------------------------------------------------------------------------
(* Spectrometer commands with a validated or plain argument *)

\* set_lamp_enable, line 405
lamp_valid(enable) == (enable = 0) \/ (enable = 1)

set_lamp_enable(enable, line, resp) ==
    LET c == Call("set_lamp_enable", <<enable>>, line)
    IN  IF lamp_valid(enable)
        THEN SendAndClear(c,
                 [Self EXCEPT !.immediateDataLength = 1,
                              !.immediateData = SetAt(@, 0, enable)],
                 1115152, resp)
        ELSE Done(c, Self, <<>>, "return", None,
                  <<"Please use either 0 or 1 for lamb enable configuration">>)

\* set_scans_to_avg, line 440
scans_valid(scans) == scans < 5001 /\ scans > 0

\* faulty variant of scans_bytes: high byte first
scans_bytes_high_first(scans) == <<(scans \div 256) % 256, scans % 256>>

\* set_scans_to_avg, lines 441-442: the values of immediateData[0] and [1]
scans_bytes(scans) == <<scans % 256, (scans \div 256) % 256>>

\* set_scans_to_avg: immediateDataLength goes back to 0 on both branches,
\* but not when the send raises
set_scans_to_avg(scans, line, resp) ==
    LET c == Call("set_scans_to_avg", <<scans>>, line)
    IN  IF scans_valid(scans)
        THEN SendAndClear(c,
                 [Self EXCEPT !.immediateData =
                                  SetAt(SetAt(@, 0, scans_bytes(scans)[1]), 1,
                                        scans_bytes(scans)[2]),
                              !.immediateDataLength = 2],
                 1179664, resp)
        ELSE Done(c, [Self EXCEPT !.immediateDataLength = 0], <<>>, "return", None,
                  <<"Please enter a number between 1 and 5000 for the number of Scans to average over.">>)

\* faulty variant of boxcar_valid
boxcar_valid_16(width) == width <= 16 /\ width >= 0

\* set_boxcar, line 462
boxcar_valid(width) == width < 16 /\ width >= 0

set_boxcar(width, line, resp) ==
    LET c == Call("set_boxcar", <<width>>, line)
    IN  IF boxcar_valid(width)
        THEN SendAndClear(c,
                 [Self EXCEPT !.immediateData = SetAt(@, 0, width),
                              !.immediateDataLength = 1],
                 1183760, resp)
        ELSE Done(c, [Self EXCEPT !.immediateDataLength = 0], <<>>, "return", None,
                  <<"Please enter a number between 0 and 15 for the boxcar width.">>)

set_integration_time(time_us, line, resp) ==
    SendAndClear(Call("set_integration_time", <<time_us>>, line),
        [Self EXCEPT !.immediateData = SetSlice(@, 0, pack_I(time_us)),
                     !.immediateDataLength = 4],
        1114128, resp)

set_trigger_delay(time_us, line, resp) ==
    SendAndClear(Call("set_trigger_delay", <<time_us>>, line),
        [Self EXCEPT !.immediateData = SetSlice(@, 0, pack_I(time_us)),
                     !.immediateDataLength = 4],
        1115408, resp)

\* set_trigger_mode, line 344: abs(trig) < 3
trigger_valid(trig) == (IF trig < 0 THEN 0 - trig ELSE trig) < 3

\* struct.pack('<B', v) with v outside 0..255 under an interpreter whose
\* struct module masks the overflow (Python before 2.7) instead of raising
\* struct.error (Python 2.7): the bytes _build_packet packs
pack_masked(self) ==
    [self EXCEPT !.immediateData = [i \in 1..16 |-> self.immediateData[i] % 256]]

\* set_trigger_mode; masking tells which of the two struct behaviours the
\* interpreter has, it matters for a negative trig only
set_trigger_mode(trig, line, resp, masking) ==
    LET c == Call("set_trigger_mode", <<trig>>, line)
        s1 == [Self EXCEPT !.immediateData = SetAt(@, 0, trig),
                           !.immediateDataLength = 1]
        x == send_command_to_device(IF masking THEN pack_masked(s1) ELSE s1,
                                    1114384, line, FALSE, None, resp)
    IN  IF trigger_valid(trig)
        THEN IF x.exc = "none"
             THEN Done(c, [s1 EXCEPT !.immediateDataLength = 0], <<x>>, "return", None,
                       x.printed)
             ELSE Done(c, s1, <<x>>, x.exc, None, x.printed)
        ELSE Done(c, Self, <<>>, "return", None,
                  <<"Please enter and integer value 0, 1 or 2 for trigger mode">>)

set_pixel_binning_factor(factor, line, resp) ==
    SendAndClear(Call("set_pixel_binning_factor", <<factor>>, line),
        [Self EXCEPT !.immediateData = SetAt(@, 0, factor),
                     !.immediateDataLength = 1],
        1114768, resp)

\* set_default_binning_factor: factor is optional
set_default_binning_factor(factor, line, resp) ==
    SendAndClear(Call("set_default_binning_factor", <<factor>>, line),
        IF factor # None
        THEN [Self EXCEPT !.immediateData = SetAt(@, 0, factor[1]),
                          !.immediateDataLength = 1]
        ELSE Self,
        1114768, resp)

\* set_wav_coeff, set_nonlin_coeff, set_stray_light_coeff: an index byte and
\* the four bytes of struct.pack('<f', coeff); coeff is given by these bytes
CoeffSetters ==
    { <<"set_wav_coeff", 1573137>>,
      <<"set_nonlin_coeff", 1577233>>,
      <<"set_stray_light_coeff", 1585425>> }

set_coeff(op, index, coeff, line, resp) ==
    SendAndClear(Call(op[1], <<index, coeff>>, line),
        [Self EXCEPT !.immediateData = SetSlice(SetAt(@, 0, index), 1, coeff),
                     !.immediateDataLength = 5],
        op[2], resp)

set_irrad_calib_area(area, line, resp) ==
    SendAndClear(Call("set_irrad_calib_area", <<area>>, line),
        [Self EXCEPT !.immediateData = SetSlice(@, 0, area),
                     !.immediateDataLength = 4],
        1581073, resp)

----------------------------------------------------------------------------
(* Queries and their decoders *)

Raised(e) == [exc |-> e, v |-> None]

Value(v) == [exc |-> "none", v |-> Some(v)]

\* data[0], data[0] + 256*data[1], ... on the array a query returned; d is
\* None when the query returned nothing
Decode(kind, d) ==
    IF d = None THEN Raised("TypeError")
    ELSE LET data == d[1]
             n == Len(data)
         IN CASE kind = "u8" ->
                   IF n < 1 THEN Raised("IndexError") ELSE Value(data[1])
              [] kind = "u16" ->
                   IF n < 2 THEN Raised("IndexError") ELSE Value(data[1] + 256 * data[2])
              [] kind = "slit" ->
                   IF n < 11 THEN Raised("IndexError") ELSE Value(data[1] + 256 * data[11])
              [] kind = "u32" ->
                   IF n < 4 THEN Raised("IndexError")
                   ELSE Value(data[1] + 256 * (data[2] + 256 * (data[3] + 256 * data[4])))
              [] kind = "str" -> Value(data)
              [] kind = "u16s" ->
                   Value([ab \in 1..(n \div 2) |-> data[2 * ab - 1] + 256 * data[2 * ab]])
              [] kind = "f32" ->
                   IF n < 4 THEN Raised("IndexError") ELSE Value(SubSeq(data, 1, 4))
              [] kind = "f32x3" ->
                   IF n < 12 THEN Raised("IndexError") ELSE Value(SubSeq(data, 1, 12))
              [] kind = "f32s" ->
                   Value([ab \in 1..(n \div 4) |-> SubSeq(data, 4 * ab - 3, 4 * ab)])

\* the operations that query without immediate data: name, command, decoder
Getters ==
    { <<"get_hardware_revision", 128, "u8">>,
      <<"get_firmware_revision", 144, "u16">>,
      <<"get_serial", 256, "str">>,
      <<"get_serial_length", 257, "u8">>,
      <<"get_alias_length", 513, "u8">>,
      <<"get_alias", 512, "str">>,
      <<"get_user_string_count", 768, "u8">>,
      <<"get_user_string_length", 769, "u16">>,
      <<"get_corrected_spectrum", 1052672, "u16s">>,
      <<"get_raw_spectrum", 1052928, "u16s">>,
      <<"get_pixel_binning_factor", 1114752, "u8">>,
      <<"get_max_binning_factor", 1114753, "u8">>,
      <<"get_default_binning_factor", 1114757, "u8">>,
      <<"get_scans_to_avg", 1179648, "u16">>,
      <<"get_boxcar", 1183744, "u8">>,
      <<"get_wav_coeff_count", 1573120, "u8">>,
      <<"get_nonlin_coeff_count", 1577216, "u8">>,
      <<"get_irrad_calib_count", 1581058, "u32">>,
      <<"get_stray_light_coeff_count", 1585408, "u8">>,
      <<"get_hot_pixel_index", 1597440, "u16s">>,
      <<"get_bench_ID", 1769472, "str">>,
      <<"get_bench_serial", 1769728, "str">>,
      <<"get_slit_width", 1769984, "slit">>,
      <<"get_fiber_diameter", 1770240, "u16">>,
      <<"get_grating", 1770496, "str">>,
      <<"get_filter", 1770752, "str">>,
      <<"get_coating", 1771008, "str">>,
      <<"get_number_GPIO_pins", 2097152, "u8">>,
      <<"get_temperature_sensor_count", 4194304, "u8">>,
      <<"read_all_temperature", 4194306, "f32x3">> }

\* a getter without immediate data; read_all_temperature also puts
\* immediateDataLength to 0 once the query has returned
getter(g, line, resp) ==
    LET c == Call(g[1], <<>>, line)
        x == query_device(Self, g[2], line, resp)
        d == Decode(g[3], x.ret)
        s2 == IF g[1] = "read_all_temperature"
              THEN [Self EXCEPT !.immediateDataLength = 0] ELSE Self
    IN  IF x.exc # "none"
        THEN Done(c, Self, <<x>>, x.exc, None, x.printed)
        ELSE Done(c, s2, <<x>>, IF d.exc = "none" THEN "return" ELSE d.exc, d.v, x.printed)

\* the getters that send an index byte as immediate data and decode a float
IndexedGetters ==
    { <<"get_wav_coeff", 1573121>>,
      <<"get_nonlin_coeff", 1577217>>,
      <<"get_stray_light_coeff", 1585409>>,
      <<"read_temperature_sensor", 4194305>> }

indexed_getter(g, index, line, resp) ==
    LET c == Call(g[1], <<index>>, line)
        s1 == [Self EXCEPT !.immediateDataLength = 1,
                           !.immediateData = SetAt(@, 0, index)]
        x == query_device(s1, g[2], line, resp)
        d == Decode("f32", x.ret)
    IN  IF x.exc # "none"
        THEN Done(c, s1, <<x>>, x.exc, None, x.printed)
        ELSE Done(c, [s1 EXCEPT !.immediateDataLength = 0], <<x>>,
                  IF d.exc = "none" THEN "return" ELSE d.exc, d.v, x.printed)

\* get_user_string: a query that returned nothing gives the empty string;
\* zero bytes are dropped from the reply
get_user_string(ind, line, resp) ==
    LET c == Call("get_user_string", <<ind>>, line)
        s1 == [Self EXCEPT !.immediateDataLength = 1,
                           !.immediateData = SetAt(@, 0, ind)]
        x == query_device(s1, 770, line, resp)
        s2 == [s1 EXCEPT !.immediateDataLength = 0]
    IN  IF x.exc # "none"
        THEN Done(c, s1, <<x>>, x.exc, None, x.printed)
        ELSE IF x.ret = None
        THEN Done(c, s2, <<x>>, "return", Some(<<>>),
                  x.printed \o <<"There is no User String with this Index">>)
        ELSE Done(c, s2, <<x>>, "return", Some(SelectSeq(x.ret[1], LAMBDA b : b # 0)),
                  x.printed)

\* faulty variant of irrad_catches: the handler is missing
irrad_catches_nothing(exc) == FALSE

\* get_irrad_calib and get_irrad_calib_area: except STS_Error
irrad_catches(exc) == exc = "STS_Error"

IrradGetters ==
    { <<"get_irrad_calib", 1581057, "f32s",
        "There is no data for irradiance calibration.">>,
      <<"get_irrad_calib_area", 1581059, "f32",
        "There is no area for collection set.">> }

irrad_getter(g, line, resp) ==
    LET c == Call(g[1], <<>>, line)
        x == query_device(Self, g[2], line, resp)
        d == Decode(g[3], x.ret)
    IN  IF x.exc # "none"
        THEN IF irrad_catches(x.exc)
             THEN Done(c, Self, <<x>>, "return", None, x.printed \o <<g[4]>>)
             ELSE Done(c, Self, <<x>>, x.exc, None, x.printed)
        ELSE Done(c, Self, <<x>>, IF d.exc = "none" THEN "return" ELSE d.exc, d.v, x.printed)

----------------------------------------------------------------------------
(* Operations with an extended payload *)

\* set_user_string, line 238: the value handed to _update_bytes_remaining
user_string_bytes(data) == ((Len(data) \div 64) + 1) * 64

\* set_user_string: up to 15 characters travel as immediate data, up to 348
\* as payload; a longer string evaluates get_user_string_length() (a query on
\* line 1) for the message and then fails on the operator & (TypeError)
set_user_string(stringname, string_ind, line, resp) ==
    LET c == Call("set_user_string", <<stringname, string_ind>>, line)
        s0 == [Self EXCEPT !.regarding = <<0, 1, 0, 2>>]
        back(s) == [s EXCEPT !.regarding = <<0, 0, 0, 0>>,
                             !.bytesRemaining = update_bytes_remaining(0)]
        s1 == [s0 EXCEPT !.immediateData = SetSlice(SetAt(@, 0, string_ind), 1, stringname),
                         !.immediateDataLength = Len(stringname) + 1]
        x1 == send_command_to_device(s1, 784, line, FALSE, None, resp)
        data == <<string_ind>> \o stringname
        s2 == [s0 EXCEPT !.bytesRemaining = update_bytes_remaining(user_string_bytes(data))]
        x2 == send_command_to_device(s2, 784, line, TRUE, Some(data), resp)
        x3 == query_device(s0, 769, 1, resp)
        d3 == Decode("u16", x3.ret)
    IN  IF Len(stringname) <= 348
        THEN IF Len(stringname) <= 15
             THEN IF x1.exc = "none"
                  THEN Done(c, back([s1 EXCEPT !.immediateDataLength = 0]), <<x1>>,
                            "return", None, x1.printed)
                  ELSE Done(c, s1, <<x1>>, x1.exc, None, x1.printed)
             ELSE IF x2.exc = "none"
                  THEN Done(c, back(s2), <<x2>>, "return", None, x2.printed)
                  ELSE Done(c, s2, <<x2>>, x2.exc, None, x2.printed)
        ELSE Done(c, s0, <<x3>>,
                  IF x3.exc # "none" THEN x3.exc
                  ELSE IF d3.exc # "none" THEN d3.exc ELSE "TypeError",
                  None, x3.printed)

\* the bytes of the first k values, v%256, (v/256)%256, ... per value, in an
\* array of width*n bytes that starts as zeros
EncodedPrefix(values, k, width) ==
    [i \in 1..(width * Len(values)) |->
        IF i <= width * k
        THEN (values[((i - 1) \div width) + 1] \div (256 ^ ((i - 1) % width))) % 256
        ELSE 0]

\* how many passes of a loop of n sends run when every exchange is answered
\* alike: a pass that raises ends the call
Passes(n, firstExc) == IF n = 0 THEN 0 ELSE IF firstExc # "none" THEN 1 ELSE n

\* set_irrad_calib: the send sits inside the loop over the values, so pass k
\* sends the array with its first k values filled in
set_irrad_calib(calibration, line, resp) ==
    LET c == Call("set_irrad_calib", <<calibration>>, line)
        n == Len(calibration)
        s1 == [Self EXCEPT !.bytesRemaining = update_bytes_remaining(4 * n)]
        s2 == [s1 EXCEPT !.bytesRemaining = update_bytes_remaining(0)]
        x(k) == send_command_to_device(s1, 1597456, line, TRUE,
                    Some(EncodedPrefix(calibration, k, 4)), resp)
        m == Passes(n, x(1).exc)
        xs == [k \in 1..m |-> x(k)]
    IN  IF n = 0
        THEN Done(c, Self, <<>>, "return", None, <<>>)
        ELSE IF x(1).exc # "none"
        THEN Done(c, s1, xs, x(1).exc, None, x(1).printed)
        ELSE Done(c, s2, xs, "return", None, <<>>)

RECURSIVE hot_pixel_fields(_, _, _)
\* set_hot_pixel_index with at most 8 indices: the packet fields at the send
\* of pass k; each pass copies two more bytes into immediateData
hot_pixel_fields(self, indices, k) ==
    IF k = 0 THEN self
    ELSE LET prev == hot_pixel_fields(self, indices, k - 1)
             data == EncodedPrefix(indices, k, 2)
         IN  [prev EXCEPT !.immediateData =
                              SetAt(SetAt(@, 2 * k - 2, data[2 * k - 1]), 2 * k - 1, data[2 * k]),
                          !.immediateDataLength = 2 * k]

\* set_hot_pixel_index: like set_irrad_calib the send sits inside the loop;
\* up to 16 bytes go as immediate data, more as payload
set_hot_pixel_index(indices, line, resp) ==
    LET c == Call("set_hot_pixel_index", <<indices>>, line)
        n == Len(indices)
        \* immediate data
        xi(k) == send_command_to_device(hot_pixel_fields(Self, indices, k), 1597456,
                     line, FALSE, None, resp)
        mi == Passes(n, xi(1).exc)
        \* payload
        s1 == [Self EXCEPT !.bytesRemaining = update_bytes_remaining(2 * n)]
        s2 == [s1 EXCEPT !.bytesRemaining = update_bytes_remaining(0)]
        xp(k) == send_command_to_device(s1, 1597456, line, TRUE,
                     Some(EncodedPrefix(indices, k, 2)), resp)
        mp == Passes(n, xp(1).exc)
    IN  IF n = 0
        THEN Done(c, Self, <<>>, "return", None, <<>>)
        ELSE IF 2 * n <= 16
        THEN IF xi(1).exc # "none"
             THEN Done(c, hot_pixel_fields(Self, indices, 1), [k \in 1..mi |-> xi(k)],
                       xi(1).exc, None, xi(1).printed)
             ELSE Done(c, [hot_pixel_fields(Self, indices, n) EXCEPT !.immediateDataLength = 0],
                       [k \in 1..mi |-> xi(k)], "return", None, <<>>)
        ELSE IF xp(1).exc # "none"
             THEN Done(c, s1, [k \in 1..mp |-> xp(k)], xp(1).exc, None, xp(1).printed)
             ELSE Done(c, s2, [k \in 1..mp |-> xp(k)], "return", None, <<>>)

----------------------------------------------------------------------------
(* Operations that are not implemented *)

NotImplemented ==
    { "get_partial_spectrum_mode", "get_output_enable_vector",
      "set_output_enable_vector", "get_value_vector", "set_value_vector",
      "set_single_strobe_pulse_delay", "set_single_strobe_pulse_width",
      "set_single_strobe_enable", "set_cont_strobe_period", "set_cont_strobe_enable" }

\* faulty variant of not_implemented: an empty body instead of the raise
not_implemented_passes(op, line) ==
    Done(Call(op, <<>>, line), Self, <<>>, "return", None, <<>>)

not_implemented(op, line) ==
    Done(Call(op, <<>>, line), Self, <<>>, "NotImplementedError", None, <<>>)

----------------------------------------------------------------------------
(* Arguments the operations are called with *)

\* a string of n letters 'a'
Str(n) == [i \in 1..n |-> 97]

AliasArgs == { Str(1), Str(16), Str(17) }

UserStringArgs == { Str(1), Str(15), Str(16), Str(349) }

LedArgs == { 0, 1, 2, 3 }

LampArgs == { 0, 1, 2 }

ScansArgs == { 0, 1, 5000, 5001 }

BoxcarArgs == { -1, 0, 15, 16 }

TriggerArgs == { 0, 1, 3 }

TimeArgs == { 257 }

IndexArgs == { 1 }

\* struct.pack('<f', 1.0)
CoeffArgs == { <<0, 0, 128, 63>> }

CalibArgs == { <<>>, <<258>>, <<1, 2>> }

HotPixelArgs ==
    { <<>>, <<5>>, <<5, 6>>, <<1, 2, 3, 4, 5, 6, 7, 8>>, <<1, 2, 3, 4, 5, 6, 7, 8, 9>> }

----------------------------------------------------------------------------
(* Specification: any sequence of public calls on one driver object *)

\* the caller is between two calls; the bound on the number of calls
CanCall == call.op = "idle" /\ ncalls < MaxCalls

\* the caller has taken the result or the exception of the latest call and
\* goes on with the driver object
caller_continues ==
    /\ call.op # "idle"
    /\ call' = Call("idle", <<>>, 0)
    /\ xfers' = <<>>
    /\ outcome' = "return"
    /\ ret' = None
    /\ printed' = <<>>
    /\ UNCHANGED <<immediateData, immediateDataLength, regarding, bytesRemaining, ncalls,
                   threads>>

Next ==
    \/ CanCall /\ \E line \in Lines, resp \in DevAnswers : reset_device(line, resp)
    \/ CanCall /\ \E op \in PlainCommands, line \in Lines, resp \in DevAnswers :
           plain_command(op, line, resp)
    \/ CanCall /\ \E s \in AliasArgs, line \in Lines, resp \in DevAnswers : set_alias(s, line, resp)
    \/ CanCall /\ \E a \in LedArgs, line \in Lines, resp \in DevAnswers :
           configure_status_led(a, line, resp)
    \/ CanCall /\ \E a \in LampArgs, line \in Lines, resp \in DevAnswers : set_lamp_enable(a, line, resp)
    \/ CanCall /\ \E a \in ScansArgs, line \in Lines, resp \in DevAnswers : set_scans_to_avg(a, line, resp)
    \/ CanCall /\ \E a \in BoxcarArgs, line \in Lines, resp \in DevAnswers : set_boxcar(a, line, resp)
    \/ CanCall /\ \E a \in TimeArgs, line \in Lines, resp \in DevAnswers :
           set_integration_time(a, line, resp)
    \/ CanCall /\ \E a \in TimeArgs, line \in Lines, resp \in DevAnswers : set_trigger_delay(a, line, resp)
    \/ CanCall /\ \E a \in TriggerArgs, line \in Lines, resp \in DevAnswers,
                     masking \in BOOLEAN : set_trigger_mode(a, line, resp, masking)
    \/ CanCall /\ \E a \in IndexArgs, line \in Lines, resp \in DevAnswers :
           set_pixel_binning_factor(a, line, resp)
    \/ CanCall /\ \E a \in {None} \cup {Some(i) : i \in IndexArgs}, line \in Lines, resp \in DevAnswers :
           set_default_binning_factor(a, line, resp)
    \/ CanCall /\ \E op \in CoeffSetters, i \in IndexArgs, a \in CoeffArgs, line \in Lines,
          resp \in DevAnswers : set_coeff(op, i, a, line, resp)
    \/ CanCall /\ \E a \in CoeffArgs, line \in Lines, resp \in DevAnswers :
           set_irrad_calib_area(a, line, resp)
    \/ CanCall /\ \E g \in Getters, line \in Lines, resp \in DevAnswers : getter(g, line, resp)
    \/ CanCall /\ \E g \in IndexedGetters, i \in IndexArgs, line \in Lines, resp \in DevAnswers :
           indexed_getter(g, i, line, resp)
    \/ CanCall /\ \E i \in IndexArgs, line \in Lines, resp \in DevAnswers : get_user_string(i, line, resp)
    \/ CanCall /\ \E g \in IrradGetters, line \in Lines, resp \in DevAnswers : irrad_getter(g, line, resp)
    \/ CanCall /\ \E s \in UserStringArgs, i \in IndexArgs, line \in Lines, resp \in DevAnswers :
           set_user_string(s, i, line, resp)
    \/ CanCall /\ \E a \in CalibArgs, line \in Lines, resp \in DevAnswers : set_irrad_calib(a, line, resp)
    \/ CanCall /\ \E a \in HotPixelArgs, line \in Lines, resp \in DevAnswers :
           set_hot_pixel_index(a, line, resp)
    \/ CanCall /\ \E op \in NotImplemented, line \in Lines : not_implemented(op, line)
    \/ caller_continues

Spec == Init /\ [][Next]_vars

----------------------------------------------------------------------------
(* Specification of the packet codec: _build_packet on its own *)

\* a payload of n bytes
PayloadOf(n) == [i \in 1..n |-> (37 * i) % 256]

\* packet fields the driver object can hold when _build_packet is called:
\* the defaults, and the fields a failed set_alias and a failed
\* set_user_string leave behind
CodecFields ==
    { defaults,
      Fields(Str(16), 16, <<0, 1, 0, 2>>, update_bytes_remaining(64)) }

InitCodec ==
    \E f \in CodecFields :
        /\ immediateData = f.immediateData
        /\ immediateDataLength = f.immediateDataLength
        /\ regarding = f.regarding
        /\ bytesRemaining = f.bytesRemaining
        /\ call = Call("idle", <<>>, 0)
        /\ xfers = <<>>
        /\ outcome = "return"
        /\ ret = None
        /\ printed = <<>>
        /\ ncalls = 0
        /\ threads = <<>>

\* one call of _build_packet(commandtype, flags_up, data)
build_packet_call(commandtype, flags_up, data) ==
    /\ call' = Call("_build_packet", <<commandtype, flags_up, data>>, 0)
    /\ ret' = Some(build_packet(Self, commandtype, flags_up, data))
    /\ outcome' = "return"
    /\ UNCHANGED <<immediateData, immediateDataLength, regarding, bytesRemaining,
                   xfers, printed, ncalls, threads>>

NextCodec ==
    \E commandtype \in {0, 784, 1597456}, flags_up \in {0, 4},
       data \in {None} \cup {Some(PayloadOf(n)) : n \in 0..MaxPayload} :
        build_packet_call(commandtype, flags_up, data)

SpecCodec == InitCodec /\ [][NextCodec]_vars

----------------------------------------------------------------------------
(* Specification of the frame round trip: _build_packet, then the reads    *)
(* of the frame at the offsets the transport functions use                  *)

\* immediate data of n bytes as set_alias stores them: n characters, in an
\* array that holds zeros or the 16 characters of an earlier alias
AliasFields ==
    { Fields([i \in 1..16 |-> IF i <= n THEN 230 + i ELSE old], n,
             <<0, 0, 0, 0>>, <<20, 0, 0, 0>>) : n \in 0..16, old \in {0, 97} }

InitRoundTrip ==
    \E f \in AliasFields :
        /\ immediateData = f.immediateData
        /\ immediateDataLength = f.immediateDataLength
        /\ regarding = f.regarding
        /\ bytesRemaining = f.bytesRemaining
        /\ call = Call("idle", <<>>, 0)
        /\ xfers = <<>>
        /\ outcome = "return"
        /\ ret = None
        /\ printed = <<>>
        /\ ncalls = 0
        /\ threads = <<>>

\* _build_packet(commandtype, flags_up), then _internal_read on the frame
\* with the length the frame declares, as _query_device calls it
build_then_read(commandtype, flags_up) ==
    LET frame == build_packet(Self, commandtype, flags_up, None)
    IN  /\ call.op = "idle"
        /\ call' = Call("_internal_read", <<commandtype, flags_up>>, 0)
        /\ ret' = Some([frame |-> frame, data |-> internal_read(frame, frame[24])])
        /\ outcome' = "return"
        /\ UNCHANGED <<immediateData, immediateDataLength, regarding, bytesRemaining,
                       xfers, printed, ncalls, threads>>

\* command codes: reset, get_serial, set_hot_pixel_index and a code with all
\* four bytes set; flag bytes: the two values the driver uses and the other
\* single bits
NextRoundTrip ==
    \E commandtype \in {0, 256, 1597456, 2147483647}, flags_up \in {0, 1, 2, 4, 8} :
        build_then_read(commandtype, flags_up)

SpecRoundTrip == InitRoundTrip /\ [][NextRoundTrip]_vars

----------------------------------------------------------------------------
(* Specification of set_scans_to_avg over its whole range of valid         *)
(* arguments: one call on a driver object whose packet fields are as       *)
(* __init__ or an earlier operation left them                              *)

\* the valid arguments of set_scans_to_avg (line 440)
ScansRange == 1..5000

\* packet fields before the call: the defaults, and the fields a failed
\* set_alias leaves behind
ScansFields ==
    { defaults, Fields(Str(16), 16, <<0, 0, 0, 0>>, <<20, 0, 0, 0>>) }

InitScans ==
    \E f \in ScansFields :
        /\ immediateData = f.immediateData
        /\ immediateDataLength = f.immediateDataLength
        /\ regarding = f.regarding
        /\ bytesRemaining = f.bytesRemaining
        /\ call = Call("idle", <<>>, 0)
        /\ xfers = <<>>
        /\ outcome = "return"
        /\ ret = None
        /\ printed = <<>>
        /\ ncalls = 0
        /\ threads = <<>>

NextScans ==
    /\ ncalls = 0
    /\ \E scans \in ScansRange, line \in Lines, resp \in DevAnswers :
           set_scans_to_avg(scans, line, resp)

SpecScans == InitScans /\ [][NextScans]_vars

----------------------------------------------------------------------------
(* Specification of set_trigger_mode over negative, valid and too large    *)
(* arguments: one call on a driver object whose packet fields are as       *)
(* __init__ or an earlier operation left them                              *)

TriggerRange == -3..3

InitTrigger ==
    \E f \in ScansFields :
        /\ immediateData = f.immediateData
        /\ immediateDataLength = f.immediateDataLength
        /\ regarding = f.regarding
        /\ bytesRemaining = f.bytesRemaining
        /\ call = Call("idle", <<>>, 0)
        /\ xfers = <<>>
        /\ outcome = "return"
        /\ ret = None
        /\ printed = <<>>
        /\ ncalls = 0
        /\ threads = <<>>

NextTrigger ==
    /\ ncalls = 0
    /\ \E trig \in TriggerRange, line \in Lines, resp \in DevAnswers, masking \in BOOLEAN :
           set_trigger_mode(trig, line, resp, masking)

SpecTrigger == InitTrigger /\ [][NextTrigger]_vars

----------------------------------------------------------------------------
(* Specification of two callers on one driver object.  The driver has no   *)
(* lock: a caller runs its operation statement by statement, each USB      *)
(* transfer and each assignment to a packet field is one step, and the     *)
(* steps of the two callers interleave freely.                             *)

Callers == {1, 2}

\* the lines the callers use
ThreadLines == {1, 2}

\* one statement of an operation, or of the transport function it calls
Stmt(k, x, y, z) == [k |-> k, x |-> x, y |-> y, z |-> z]

\* the statements of the operations the callers run, in program order:
\* set_boxcar(width), set_scans_to_avg(scans), get_user_string(ind) and
\* set_user_string(stringname, 1) with a string of 16 to 348 characters
ThreadProgram(op, a) ==
    CASE op = "set_boxcar" ->
           << Stmt("immediateData", 0, a, 0),
              Stmt("immediateDataLength", 1, 0, 0),
              Stmt("_build_packet", 1183760, 4, None),
              Stmt("write", 0, 0, 0),
              Stmt("read", 3, 0, 0),
              Stmt("immediateDataLength", 0, 0, 0) >>
      [] op = "set_scans_to_avg" ->
           << Stmt("immediateData", 0, a % 256, 0),
              Stmt("immediateData", 1, (a \div 256) % 256, 0),
              Stmt("immediateDataLength", 2, 0, 0),
              Stmt("_build_packet", 1179664, 4, None),
              Stmt("write", 0, 0, 0),
              Stmt("read", 3, 0, 0),
              Stmt("immediateDataLength", 0, 0, 0) >>
      [] op = "get_user_string" ->
           << Stmt("immediateDataLength", 1, 0, 0),
              Stmt("immediateData", 0, a, 0),
              Stmt("_build_packet", 770, 0, None),
              Stmt("write", 0, 0, 0),
              Stmt("read", 1, 0, 0),
              Stmt("immediateDataLength", 0, 0, 0) >>
      [] op = "set_user_string" ->
           << Stmt("regarding", <<0, 1, 0, 2>>, 0, 0),
              Stmt("bytesRemaining",
                   update_bytes_remaining(user_string_bytes(<<1>> \o a)), 0, 0),
              Stmt("_build_packet", 784, 4, Some(<<1>> \o a)),
              Stmt("write", 0, 0, 0),
              Stmt("read", 3, 0, 0),
              Stmt("regarding", <<0, 0, 0, 0>>, 0, 0),
              Stmt("bytesRemaining", update_bytes_remaining(0), 0, 0) >>

\* the calls the callers make, with valid arguments
ThreadCalls ==
    { <<"set_boxcar", 5>>, <<"set_scans_to_avg", 258>>, <<"get_user_string", 1>>,
      <<"set_user_string", Str(16)>> }

\* frames the device delivers to a read of a caller
ThreadFrames == { FrameAck, FrameResp2, FrameNack12, FrameRespExt84 }

\* a caller that has not called yet
ThreadIdle ==
    [op |-> "idle", args |-> 0, line |-> 0, pc |-> 0, packet |-> None,
     sent |-> 0, reads |-> 0, toread |-> 0, exc |-> "none"]

InitThreads ==
    /\ immediateData = defaults.immediateData
    /\ immediateDataLength = defaults.immediateDataLength
    /\ regarding = defaults.regarding
    /\ bytesRemaining = defaults.bytesRemaining
    /\ call = Call("idle", <<>>, 0)
    /\ xfers = <<>>
    /\ outcome = "return"
    /\ ret = None
    /\ printed = <<>>
    /\ ncalls = 0
    /\ threads = [t \in Callers |-> ThreadIdle]

\* the statement caller t is about to run
ThreadStmt(t) == ThreadProgram(threads[t].op, threads[t].args)[threads[t].pc]

Running(t) ==
    /\ threads[t].op # "idle"
    /\ threads[t].pc <= Len(ThreadProgram(threads[t].op, threads[t].args))

\* caller t enters a public operation
thread_call(t, op, a, line) ==
    /\ threads[t].op = "idle"
    /\ threads' = [threads EXCEPT ![t] =
                     [ThreadIdle EXCEPT !.op = op, !.args = a, !.line = line, !.pc = 1]]
    /\ UNCHANGED <<immediateData, immediateDataLength, regarding, bytesRemaining,
                   call, xfers, outcome, ret, printed, ncalls>>

\* caller t runs an assignment to one of the packet fields of the object
thread_assign(t) ==
    /\ Running(t)
    /\ LET s == ThreadStmt(t)
       IN  /\ s.k \in {"immediateData", "immediateDataLength", "regarding", "bytesRemaining"}
           /\ immediateData' =
                (IF s.k = "immediateData" THEN SetAt(immediateData, s.x, s.y) ELSE immediateData)
           /\ immediateDataLength' =
                (IF s.k = "immediateDataLength" THEN s.x ELSE immediateDataLength)
           /\ regarding' = (IF s.k = "regarding" THEN s.x ELSE regarding)
           /\ bytesRemaining' = (IF s.k = "bytesRemaining" THEN s.x ELSE bytesRemaining)
    /\ threads' = [threads EXCEPT ![t].pc = @ + 1]
    /\ UNCHANGED <<call, xfers, outcome, ret, printed, ncalls>>

\* caller t builds its frame from the packet fields as they are now
thread_build_packet(t) ==
    /\ Running(t)
    /\ ThreadStmt(t).k = "_build_packet"
    /\ threads' = [threads EXCEPT
                     ![t].packet = Some(build_packet(Self, ThreadStmt(t).x, ThreadStmt(t).y,
                                                     ThreadStmt(t).z)),
                     ![t].pc = @ + 1]
    /\ UNCHANGED <<immediateData, immediateDataLength, regarding, bytesRemaining,
                   call, xfers, outcome, ret, printed, ncalls>>

\* caller t writes the next 64-byte block of its frame to its line
thread_write(t) ==
    /\ Running(t)
    /\ ThreadStmt(t).k = "write"
    /\ LET th == threads[t]
           sends == Len(th.packet[1]) \div 64
       IN  threads' = [threads EXCEPT
                         ![t].sent = th.sent + 1,
                         ![t].pc = IF th.sent + 1 = sends THEN th.pc + 1 ELSE th.pc]
    /\ UNCHANGED <<immediateData, immediateDataLength, regarding, bytesRemaining,
                   call, xfers, outcome, ret, printed, ncalls>>

\* caller t reads one frame from its line: the reads of
\* _send_command_to_device (the flag byte wanted is 3) and of _query_device
\* (1) with its _external_read
thread_read(t, frame) ==
    /\ Running(t)
    /\ ThreadStmt(t).k = "read"
    /\ LET th == threads[t]
           found == frame[5] = ThreadStmt(t).x
           bytes_left == frame[41] + 256 * (frame[42] + 256 * (frame[43] + 256 * frame[44]))
           to_read == bytes_left \div 64
           next == [th EXCEPT !.reads = th.reads + 1, !.pc = th.pc + 1]
           again == [th EXCEPT !.reads = th.reads + 1]
           failed == [th EXCEPT !.reads = th.reads + 1, !.exc = "STS_Error",
                                !.pc = Len(ThreadProgram(th.op, th.args)) + 1]
       IN  threads' = [threads EXCEPT ![t] =
             IF th.reads = 0
             THEN IF found THEN next ELSE again
             ELSE IF th.reads = 1
             THEN IF ~found THEN failed
                  ELSE IF ThreadStmt(t).x = 3 \/ bytes_left = 20 \/ to_read = 0 THEN next
                  ELSE [again EXCEPT !.toread = to_read]
             ELSE IF th.toread = 1 THEN [next EXCEPT !.toread = 0]
                  ELSE [again EXCEPT !.toread = th.toread - 1]]
    /\ UNCHANGED <<immediateData, immediateDataLength, regarding, bytesRemaining,
                   call, xfers, outcome, ret, printed, ncalls>>

NextThreads ==
    \/ \E t \in Callers, c \in ThreadCalls, line \in ThreadLines :
           thread_call(t, c[1], c[2], line)
    \/ \E t \in Callers : thread_assign(t)
    \/ \E t \in Callers : thread_build_packet(t)
    \/ \E t \in Callers : thread_write(t)
    \/ \E t \in Callers, frame \in ThreadFrames : thread_read(t, frame)

SpecThreads == InitThreads /\ [][NextThreads]_vars

----------------------------------------------------------------------------
(* What the latest call did on the bus *)

RECURSIVE Flatten(_)
Flatten(ss) == IF ss = <<>> THEN <<>> ELSE Head(ss) \o Flatten(Tail(ss))

\* all transfers of the latest call, in order
IO == Flatten([i \in 1..Len(xfers) |-> xfers[i].io])

Reads(evs) == SelectSeq(evs, LAMBDA e : e.t = "read")

Writes(evs) == SelectSeq(evs, LAMBDA e : e.t = "write")

\* the frames the reads of a transport call returned
FramesRead(x) == [i \in 1..Len(Reads(x.io)) |-> Reads(x.io)[i].bytes]

\* fields of a frame, by their byte offsets
FlagByte(frame) == frame[5]

ErrorByte(frame) == frame[7]

ImmLength(frame) == frame[24]

BytesLeft(frame) == frame[41] + 256 * frame[42] + 65536 * frame[43] + 16777216 * frame[44]

Queries == { i \in 1..Len(xfers) : xfers[i].kind = "query" }

Sends == { i \in 1..Len(xfers) : xfers[i].kind = "send" }

----------------------------------------------------------------------------
(* Properties *)

\* C1: in _query_device, when the first frame read has the RESPONSE flag
\* (flag byte 1) and bytes-remaining 20, the query returns that frame's
\* immediate data (bytes 24 .. 24+n-1, n the length at byte 23) and does no
\* further read.
C1_FirstResponseReturned ==
    \A i \in Queries :
        LET fr == FramesRead(xfers[i])
        IN  (Len(fr) >= 1 /\ FlagByte(fr[1]) = 1 /\ BytesLeft(fr[1]) = 20)
            => /\ Len(fr) = 1
               /\ xfers[i].exc = "none"
               /\ xfers[i].ret = Some(SubSeq(fr[1], 25, 24 + ImmLength(fr[1])))

\* the payload a query hands back when frame fr[k] announces B bytes: 64
\* bytes for every whole 64 in B, taken from offset 44 of what was read from
\* fr[k] on
PayloadFrom(fr, k) ==
    LET buf == Flatten(SubSeq(fr, k, Len(fr)))
    IN  SubSeq(buf, 45, 44 + 64 * (BytesLeft(fr[k]) \div 64))

\* C2: in _query_device, if the first frame read lacks the RESPONSE flag and
\* the second has it, the query succeeds with the data of the second frame;
\* if both lack it, the query fails with the device error selected by the
\* error byte of the second frame and returns no data.
C2_QueryRetry ==
    \A i \in Queries :
        LET fr == FramesRead(xfers[i])
        IN  (Len(fr) >= 1 /\ FlagByte(fr[1]) # 1)
            => /\ Len(fr) >= 2
               /\ IF FlagByte(fr[2]) = 1
                  THEN /\ xfers[i].exc = "none"
                       /\ xfers[i].ret =
                            Some(IF BytesLeft(fr[2]) = 20
                                 THEN SubSeq(fr[2], 25, 24 + ImmLength(fr[2]))
                                 ELSE PayloadFrom(fr, 2))
                  ELSE /\ Len(fr) = 2
                       /\ xfers[i].exc = "STS_Error"
                       /\ xfers[i].ret = None
                       /\ xfers[i].printed[1] = error_management(ErrorByte(fr[2]))

\* a query that succeeded on its second frame, whose data differs from what
\* the first frame carries
C2_Witness_RetrySucceeded ==
    \E i \in Queries :
        LET fr == FramesRead(xfers[i])
        IN  /\ Len(fr) = 2 /\ FlagByte(fr[1]) # 1 /\ FlagByte(fr[2]) = 1
            /\ ImmLength(fr[1]) # ImmLength(fr[2])
            /\ xfers[i].ret = Some(SubSeq(fr[2], 25, 24 + ImmLength(fr[2])))

\* C3: _send_command_to_device for a non-reset command, once its frame is
\* written, does exactly one read
\* when the first frame is an ACK (flag byte 3), exactly two otherwise, never
\* more; it returns normally if one of these frames is an ACK and fails with
\* a device error if neither is.
C3_SendReads ==
    \A i \in Sends :
        LET x == xfers[i]
            fr == FramesRead(x)
        IN  (x.command # 0 /\ Len(Writes(x.io)) >= 1 /\ x.exc # "USBError")
            => /\ Len(fr) \in {1, 2}
               /\ (FlagByte(fr[1]) = 3) <=> (Len(fr) = 1)
               /\ (\E k \in 1..Len(fr) : FlagByte(fr[k]) = 3) <=> (x.exc = "none")
               /\ (\A k \in 1..Len(fr) : FlagByte(fr[k]) # 3) <=> (x.exc = "STS_Error")

\* a send whose first frame was no ACK and whose second was
C3_Witness_SecondAck ==
    \E i \in Sends :
        LET fr == FramesRead(xfers[i])
        IN  /\ xfers[i].command # 0
            /\ Len(fr) = 2 /\ FlagByte(fr[1]) # 3 /\ FlagByte(fr[2]) = 3
            /\ xfers[i].exc = "none"

\* C4: when the frame obtained after the single retry carries error number
\* 255 (deferred), send and query do not fail the call but read once more on
\* the same line.
C4_DeferredReadsAgain ==
    \A i \in 1..Len(xfers) :
        LET x == xfers[i]
            fr == FramesRead(x)
            want == IF x.kind = "send" THEN 3 ELSE 1
        IN  (Len(fr) >= 2 /\ FlagByte(fr[1]) # want /\ FlagByte(fr[2]) # want
             /\ ErrorByte(fr[2]) = 255)
            => /\ x.exc # "STS_Error"
               /\ Len(fr) >= 3

\* the latest call saw the transport layer report a device error
DeviceErrorReported == \E i \in 1..Len(xfers) : xfers[i].exc = "STS_Error"

\* C5 as stated: whenever the transport layer reports a device error for an
\* operation other than reset, the public operation ends in a failure; no
\* operation turns a device error into a normal return.
C5_NoOperationSwallows ==
    (DeviceErrorReported /\ call.op # "reset_device") => outcome # "return"

\* C5 amended: a device error ends every operation in the failure STS_Error,
\* except get_irrad_calib and get_irrad_calib_area, which catch it, print
\* their message and return None.
C5_DeviceErrorSurfaces ==
    DeviceErrorReported
    => IF call.op \in {"get_irrad_calib", "get_irrad_calib_area"}
       THEN /\ outcome = "return" /\ ret = None
            /\ printed[Len(printed)] \in {"There is no data for irradiance calibration.",
                                          "There is no area for collection set."}
       ELSE outcome = "STS_Error" /\ ret = None

\* a device error caught by get_irrad_calib_area
C5_Witness_Caught ==
    /\ call.op = "get_irrad_calib_area"
    /\ DeviceErrorReported
    /\ outcome = "return"

\* the latest call is a range-validated setter with an argument out of range
OutOfRange(ops) ==
    /\ call.op \in ops
    /\ \/ call.op = "set_scans_to_avg" /\ ~(call.args[1] >= 1 /\ call.args[1] <= 5000)
       \/ call.op = "set_boxcar" /\ ~(call.args[1] >= 0 /\ call.args[1] <= 15)
       \/ call.op = "set_lamp_enable" /\ call.args[1] \notin {0, 1}
       \/ call.op = "configure_status_led" /\ call.args[1] \notin {1, 2}
       \/ call.op = "set_alias" /\ Len(call.args[1]) > 16

\* C6: a range-validated setter called with an out-of-range argument does no
\* USB write and no USB read (set_scans_to_avg, set_boxcar, set_lamp_enable,
\* configure_status_led, set_alias).
C6_OutOfRangeNoTransfer ==
    OutOfRange({"set_scans_to_avg", "set_boxcar", "set_lamp_enable",
                "configure_status_led", "set_alias"})
    => IO = <<>> /\ xfers = <<>>

\* set_boxcar(16) came back without a transfer
C6_Witness_Boxcar16 ==
    /\ call.op = "set_boxcar" /\ call.args[1] = 16
    /\ IO = <<>>

\* C7: a range-validated setter called with an out-of-range argument ends
\* with an error; it never returns normally.
C7_OutOfRangeFails ==
    OutOfRange({"set_scans_to_avg", "set_boxcar", "set_lamp_enable", "set_alias"})
    => outcome # "return"

\* C8: reset_device does exactly one write, of one 64-byte frame with command
\* code 0, to the OUT endpoint of the chosen line, and no read.
C8_ResetWritesOnce ==
    (call.op = "reset_device" /\ call.line \in {1, 2})
    => /\ Len(IO) = 1
       /\ IO[1].t = "write"
       /\ IO[1].ep = (IF call.line = 1 THEN 1 ELSE 2)
       /\ Len(IO[1].bytes) = 64
       /\ SubSeq(IO[1].bytes, 9, 12) = <<0, 0, 0, 0>>
       /\ outcome = "return"

\* reset_device on line 2 has written its frame
C8_Witness_ResetLine2 ==
    /\ call.op = "reset_device" /\ call.line = 2
    /\ Len(IO) = 1 /\ IO[1].t = "write" /\ IO[1].ep = 2

\* C9: every frame _build_packet returns has a length that is a multiple of
\* 64, without payload and with a payload of any length; without payload it
\* is exactly 64 bytes.
C9_FrameLength ==
    call.op = "_build_packet"
    => /\ Len(ret[1]) % 64 = 0
       /\ call.args[3] = None => Len(ret[1]) = 64

\* a frame with a payload of 21 bytes, which takes two blocks
C9_Witness_TwoBlocks ==
    /\ call.op = "_build_packet"
    /\ call.args[3] # None
    /\ Len(call.args[3][1]) = 21
    /\ Len(ret[1]) = 128

\* C10: every frame written to the device carries bytes-remaining 20 when it
\* has no extended payload and 20 + L when it carries a payload of L bytes.
C10_BytesRemaining ==
    \A i \in 1..Len(xfers) :
        LET x == xfers[i]
        IN  Len(Writes(x.io)) >= 1
            => BytesLeft(x.packet[1]) =
                 (IF x.data = None THEN 20 ELSE 20 + Len(x.data[1]))

\* the payload handed to the latest _build_packet call, when there is one
CodecPayload == call.args[3][1]

\* C11 as stated: for an extended payload of length L the frame built by
\* _build_packet consists of exactly ceil((44+L)/64) blocks of 64 bytes.
C11_BlocksHeaderAndPayload ==
    (call.op = "_build_packet" /\ call.args[3] # None)
    => Len(ret[1]) = 64 * ((44 + Len(CodecPayload) + 63) \div 64)

\* C11 amended: for an extended payload of length L the frame built by
\* _build_packet consists of exactly ceil((64+L)/64) blocks of 64 bytes: the
\* 44 bytes before the payload, the payload, and the 20 bytes of checksum
\* and footer that end the last block.
C11_BlocksWithTrailer ==
    (call.op = "_build_packet" /\ call.args[3] # None)
    => /\ Len(ret[1]) = 64 * ((64 + Len(CodecPayload) + 63) \div 64)
       /\ SubSeq(ret[1], 45, 44 + Len(CodecPayload)) = CodecPayload
       /\ SubSeq(ret[1], Len(ret[1]) - 19, Len(ret[1])) = checksum \o footer

\* a payload of 65 bytes, framed in three blocks
C11_Witness_ThreeBlocks ==
    /\ call.op = "_build_packet"
    /\ call.args[3] # None
    /\ Len(CodecPayload) = 65
    /\ Len(ret[1]) = 192

\* the position, among the frames a query read, of the RESPONSE frame the
\* device answered with: the first frame, or the second after a first frame
\* without the RESPONSE flag; 0 when neither is one
ResponseAt(fr) ==
    IF Len(fr) >= 1 /\ FlagByte(fr[1]) = 1 THEN 1
    ELSE IF Len(fr) >= 2 /\ FlagByte(fr[2]) = 1 THEN 2
    ELSE 0

\* C12 as stated: when the accepted RESPONSE frame of a query declares
\* bytes-remaining = 192, the query issues exactly 2 additional reads after
\* that frame and returns 192 bytes of concatenated payload.
C12_TwoMoreReads ==
    \A i \in Queries :
        LET fr == FramesRead(xfers[i])
            k == ResponseAt(fr)
        IN  (k # 0 /\ BytesLeft(fr[k]) = 192)
            => /\ Len(fr) - k = 2
               /\ xfers[i].ret # None
               /\ Len(xfers[i].ret[1]) = 192

\* C12 amended: when the RESPONSE frame a query accepts on its second read
\* declares bytes-remaining = 192, the query issues exactly 3 additional
\* reads after that frame, on the IN endpoint of the same line, and returns
\* 192 bytes: bytes 44 .. 235 of the four frames concatenated.
C12_ThreeMoreReads ==
    \A i \in Queries :
        LET x == xfers[i]
            fr == FramesRead(x)
        IN  (ResponseAt(fr) = 2 /\ BytesLeft(fr[2]) = 192)
            => /\ Len(fr) - 2 = 3
               /\ \A e \in 1..Len(Reads(x.io)) : Reads(x.io)[e].ep = InEP(x.line)
               /\ x.exc = "none"
               /\ x.ret # None
               /\ Len(x.ret[1]) = 192
               /\ x.ret[1] = SubSeq(Flatten(SubSeq(fr, 2, 5)), 45, 236)

\* a query that accepted a frame announcing 192 bytes and read three blocks
C12_Witness_ThreeBlocksRead ==
    \E i \in Queries :
        LET fr == FramesRead(xfers[i])
        IN  /\ ResponseAt(fr) = 2 /\ BytesLeft(fr[2]) = 192
            /\ Len(fr) = 5
            /\ xfers[i].ret # None
            /\ xfers[i].ret[1][192] = DevBlock(3)[44]

\* C13: for every accepted RESPONSE frame whose bytes-remaining value B is
\* greater than 20, the query returns exactly B bytes of payload.
C13_ReturnsBytesRemaining ==
    \A i \in Queries :
        LET x == xfers[i]
            fr == FramesRead(x)
        IN  (ResponseAt(fr) = 2 /\ BytesLeft(fr[2]) > 20)
            => /\ x.exc = "none"
               /\ x.ret # None
               /\ Len(x.ret[1]) = BytesLeft(fr[2])

\* caller t is in the middle of an exchange: it has written a block of its
\* frame and has a write or a read of this exchange still to do
InExchange(t) ==
    /\ Running(t)
    /\ threads[t].sent >= 1
    /\ ThreadStmt(t).k \in {"write", "read"}

\* C14: with two callers issuing operations on the same line of one driver
\* object, the exchanges never interleave: a caller does not start its write
\* and reads while the other caller's exchange on that line is unfinished.
C14_ExchangesSerialized ==
    \A t1 \in DOMAIN threads, t2 \in DOMAIN threads :
        (t1 # t2 /\ threads[t1].line = threads[t2].line)
        => ~(InExchange(t1) /\ InExchange(t2))

\* the values the operation of caller t assigns to packet fields before it
\* builds its frame are the values the frame it has built carries
CarriesOwnValues(t) ==
    LET th == threads[t]
        prog == ThreadProgram(th.op, th.args)
        b == CHOOSE i \in 1..Len(prog) : prog[i].k = "_build_packet"
        pk == th.packet[1]
    IN  \A i \in 1..(b - 1) :
          /\ prog[i].k = "immediateData" => pk[25 + prog[i].x] = prog[i].y
          /\ prog[i].k = "immediateDataLength" => pk[24] = prog[i].x
          /\ prog[i].k = "regarding" => SubSeq(pk, 13, 16) = prog[i].x
          /\ prog[i].k = "bytesRemaining" => SubSeq(pk, 41, 44) = prog[i].x

\* C15: with two callers running public operations concurrently on one
\* driver object, the frame each operation writes carries the immediate
\* data, immediate-data length, regarding field and bytes-remaining value
\* that this same operation set, never values set by the other operation.
C15_FrameCarriesOwnFields ==
    \A t \in DOMAIN threads :
        threads[t].sent >= 1 => CarriesOwnValues(t)

\* C16: in every frame written to the device the immediate-data bytes at
\* positions at or beyond the frame's declared immediate-data length are
\* zero; a frame never carries bytes left over from an earlier operation.
C16_ImmediateDataZeroPadded ==
    \A i \in 1..Len(xfers) :
        LET x == xfers[i]
        IN  Len(Writes(x.io)) >= 1
            => \A j \in 0..15 :
                 j >= ImmLength(x.packet[1]) => x.packet[1][25 + j] = 0

\* C17: for every n in [1, 5000], set_scans_to_avg(n) on line 1 or 2 writes
\* one frame, and that frame has immediate-data byte 0 = n mod 256, byte 1 =
\* (n div 256) mod 256 and immediate-data length field = 2.
C17_ScansEncoding ==
    (call.op = "set_scans_to_avg" /\ call.args[1] \in 1..5000 /\ call.line \in {1, 2})
    => /\ Len(Writes(IO)) = 1
       /\ Len(Writes(IO)[1].bytes) = 64
       /\ Writes(IO)[1].bytes[25] = call.args[1] % 256
       /\ Writes(IO)[1].bytes[26] = (call.args[1] \div 256) % 256
       /\ Writes(IO)[1].bytes[24] = 2
       /\ 256 * Writes(IO)[1].bytes[26] + Writes(IO)[1].bytes[25] = call.args[1]

\* set_scans_to_avg(5000) has written its frame: 5000 = 19 * 256 + 136
C17_Witness_Scans5000 ==
    /\ call.op = "set_scans_to_avg" /\ call.args[1] = 5000
    /\ Len(Writes(IO)) = 1
    /\ Writes(IO)[1].bytes[25] = 136
    /\ Writes(IO)[1].bytes[26] = 19

\* C18: for any command code, flags and immediate data of length n <= 16,
\* reading the frame built by _build_packet at the fixed offsets (flags at
\* byte 4, command code at bytes 8-11 little-endian, immediate-data length
\* at byte 23, immediate data from byte 24) recovers the command code, the
\* flags and the n immediate-data bytes, and _internal_read(frame, frame[23])
\* equals the first n immediate-data bytes.
C18_RoundTrip ==
    call.op = "_internal_read"
    => LET frame == ret[1].frame
       IN  /\ frame[5] = call.args[2]
           /\ frame[9] + 256 * frame[10] + 65536 * frame[11] + 16777216 * frame[12]
                = call.args[1]
           /\ frame[24] = immediateDataLength
           /\ SubSeq(frame, 25, 24 + frame[24]) = SubSeq(immediateData, 1, immediateDataLength)
           /\ ret[1].data = SubSeq(immediateData, 1, immediateDataLength)

\* 16 bytes of immediate data, none of them zero, read back from the frame
\* of set_hot_pixel_index's command code
C18_Witness_SixteenBytes ==
    /\ call.op = "_internal_read"
    /\ call.args[1] = 1597456
    /\ immediateDataLength = 16
    /\ ret[1].data = [i \in 1..16 |-> 230 + i]

\* the samples of a payload: sample i = byte[2i] + 256 * byte[2i+1]
SamplesOf(payload) ==
    [i \in 1..(Len(payload) \div 2) |-> payload[2 * i - 1] + 256 * payload[2 * i]]

\* the payload of the RESPONSE frame fr[k]: its immediate data when it
\* announces no more bytes, else the bytes read from offset 44 on
AnsweredPayload(fr, k) ==
    IF BytesLeft(fr[k]) = 20
    THEN SubSeq(fr[k], 25, 24 + ImmLength(fr[k]))
    ELSE PayloadFrom(fr, k)

\* C19: get_corrected_spectrum on a device that answers with a payload of
\* len bytes returns an array of len/2 samples in which sample i =
\* byte[2i] + 256*byte[2i+1].
C19_SpectrumSamples ==
    (call.op = "get_corrected_spectrum" /\ Len(xfers) = 1)
    => LET fr == FramesRead(xfers[1])
           k == ResponseAt(fr)
       IN  k # 0
           => /\ outcome = "return"
              /\ ret = Some(SamplesOf(AnsweredPayload(fr, k)))

\* C20: every operation documented as unimplemented (get_partial_spectrum_mode,
\* the GPIO output-enable and value vector getters and setters, the five
\* strobe setters) fails at once with NotImplementedError, performs no USB
\* write or read and changes no packet field.
C20_NotImplementedFails ==
    [][ call'.op \in { "get_partial_spectrum_mode", "get_output_enable_vector",
                       "set_output_enable_vector", "get_value_vector", "set_value_vector",
                       "set_single_strobe_pulse_delay", "set_single_strobe_pulse_width",
                       "set_single_strobe_enable", "set_cont_strobe_period",
                       "set_cont_strobe_enable" }
        => /\ outcome' = "NotImplementedError"
           /\ xfers' = <<>>
           /\ printed' = <<>>
           /\ UNCHANGED <<immediateData, immediateDataLength, regarding, bytesRemaining>>
      ]_vars

\* set_cont_strobe_enable has failed on an object whose packet fields an
\* earlier operation left changed
C20_Witness_StrobeAfterFailure ==
    /\ call.op = "set_cont_strobe_enable"
    /\ outcome = "NotImplementedError"
    /\ xfers = <<>>
    /\ immediateDataLength # 0

\* a USB transfer of the latest call failed with usb.core.USBError
TransportErrorRaised == \E i \in 1..Len(xfers) : xfers[i].exc = "USBError"

\* C21: reset_device returns normally to its caller when the underlying USB
\* write fails with a transport error; a transport error during reset is
\* never propagated.
C21_ResetSwallowsTransportError ==
    (call.op = "reset_device" /\ TransportErrorRaised)
    => /\ outcome = "return"
       /\ ret = None

\* the write of reset_device on line 1 failed and the call returned
C21_Witness_ResetDetached ==
    /\ call.op = "reset_device" /\ call.line = 1
    /\ Len(xfers) = 1
    /\ xfers[1].exc = "USBError"
    /\ Len(Writes(IO)) = 1
    /\ outcome = "return"

\* C22: set_trigger_mode writes a frame to the device only when trig is 0, 1
\* or 2; for every other integer value (negative values included) no USB
\* write or read happens.
C22_TriggerOnlyValidModes ==
    (call.op = "set_trigger_mode" /\ call.args[1] \notin {0, 1, 2})
    => IO = <<>>

\* C23: set_user_string called with a string longer than 348 characters
\* fails locally: it performs no USB write and no USB read, and leaves the
\* regarding field and the bytes-remaining field at their defaults.
C23_LongUserStringFailsLocally ==
    (call.op = "set_user_string" /\ Len(call.args[1]) > 348)
    => /\ outcome # "return"
       /\ IO = <<>>
       /\ regarding = <<0, 0, 0, 0>>
       /\ bytesRemaining = <<20, 0, 0, 0>>

\* C24: set_irrad_calib called with an empty array sends the
\* irradiance-calibration set command to the device: one exchange with an
\* empty payload.
C24_EmptyCalibrationIsSent ==
    (call.op = "set_irrad_calib" /\ call.args[1] = <<>> /\ call.line \in {1, 2})
    => /\ Len(xfers) = 1
       /\ xfers[1].kind = "send"
       /\ xfers[1].data = Some(<<>>)
       /\ Len(Writes(IO)) >= 1

\* C25: after any sequence of public operations, the immediate-data length
\* byte (offset 23) of every frame written to the device is at most 16.
C25_ImmediateLengthAtMost16 ==
    \A i \in 1..Len(xfers) :
        LET x == xfers[i]
        IN  Len(Writes(x.io)) >= 1
            => /\ ImmLength(Writes(x.io)[1].bytes) <= 16
               /\ ImmLength(Writes(x.io)[1].bytes) >= 0
               /\ Writes(x.io)[1].bytes = SubSeq(x.packet[1], 1, 64)

\* set_hot_pixel_index with 8 indices has written a frame that declares 16
\* bytes of immediate data
C25_Witness_SixteenDeclared ==
    /\ call.op = "set_hot_pixel_index"
    /\ \E i \in 1..Len(xfers) :
         /\ Len(Writes(xfers[i].io)) = 1
         /\ ImmLength(Writes(xfers[i].io)[1].bytes) = 16

\* C26: the failure raised when a device reports an error carries the
\* numeric error code read from the response frame, so that two failures
\* caused by different error codes are distinguishable by the caller.
C26_FailureCarriesErrorCode ==
    \A i \in 1..Len(xfers) :
        LET x == xfers[i]
            fr == FramesRead(x)
        IN  x.exc = "STS_Error"
            => /\ "code" \in DOMAIN x.raised[1]
               /\ x.raised[1].code = ErrorByte(fr[Len(fr)])

\* C27: within one operation every write goes to the OUT endpoint and every
\* read (retry and additional block reads included) comes from the IN
\* endpoint of the line chosen by the caller (line 1: 0x01/0x81, line 2:
\* 0x02/0x82); an operation called with a line other than 1 or 2 fails
\* without any write or read.
C27_LineEndpoints ==
    call.op \notin {"idle", "__init__"}
    => /\ call.line \in {1, 2}
          => \A e \in 1..Len(IO) :
               IO[e].ep = (IF IO[e].t = "write"
                           THEN (IF call.line = 1 THEN 1 ELSE 2)
                           ELSE (IF call.line = 1 THEN 129 ELSE 130))
       /\ call.line \notin {1, 2}
          => IO = <<>> /\ outcome # "return"

\* C28: for command 1 or 2, the frame written by configure_status_led has
\* immediate-data length 2, immediate-data byte 0 = 0x00 (reserved) and
\* immediate-data byte 1 = command, whatever operations ran before.
C28_StatusLedFrame ==
    (call.op = "configure_status_led" /\ call.args[1] \in {1, 2}
     /\ Len(Writes(IO)) >= 1)
    => /\ Writes(IO)[1].bytes[24] = 2
       /\ Writes(IO)[1].bytes[25] = 0
       /\ Writes(IO)[1].bytes[26] = call.args[1]

\* C29: get_slit_width decodes the reply as a two-byte little-endian
\* integer: it returns data[0] + 256*data[1] and reads no reply byte beyond
\* index 1, so it succeeds on a reply of exactly two bytes.
C29_SlitWidthTwoBytes ==
    (call.op = "get_slit_width" /\ Len(xfers) = 1 /\ xfers[1].exc = "none"
     /\ xfers[1].ret # None /\ Len(xfers[1].ret[1]) = 2)
    => /\ outcome = "return"
       /\ ret = Some(xfers[1].ret[1][1] + 256 * xfers[1].ret[1][2])

\* C30: after any public operation finishes, whether it returns normally or
\* fails with a device error, the shared packet fields it adjusted are back
\* at their defaults: immediateDataLength = 0, regarding = [0,0,0,0] and
\* bytesRemaining = 20.
C30_FieldsBackAtDefaults ==
    (call.op \notin {"idle", "__init__"} /\ outcome \in {"return", "STS_Error"})
    => /\ immediateDataLength = 0
       /\ regarding = <<0, 0, 0, 0>>
       /\ bytesRemaining = <<20, 0, 0, 0>>

----------------------------------------------------------------------------
(* Specification of the flag test: one send or one query on a fresh driver, *)
(* answered by frames whose flag byte takes every combination of the five   *)
(* flag bits                                                                *)

\* flag byte values: bit0 RESPONSE, bit1 ACK, bit2 ACK_REQUESTED, bit3 NACK,
\* bit4 EXCEPTION
FlagBytes == 0..31

FlagAnswer(f1, f2) == <<DevFrame(f1, 0, 2, 20), DevFrame(f2, 0, 2, 20)>> \o DevBlocks

FlagLines == {1, 2}

InitFlags ==
    /\ immediateData = defaults.immediateData
    /\ immediateDataLength = defaults.immediateDataLength
    /\ regarding = defaults.regarding
    /\ bytesRemaining = defaults.bytesRemaining
    /\ call = Call("idle", <<>>, 0)
    /\ xfers = <<>>
    /\ outcome = "return"
    /\ ret = None
    /\ printed = <<>>
    /\ ncalls = 0
    /\ threads = <<>>

flags_send(line, resp) == ncalls = 0 /\ set_lamp_enable(1, line, resp)

flags_query(line, resp) ==
    ncalls = 0 /\ getter(<<"get_scans_to_avg", 1179648, "u16">>, line, resp)

NextFlags ==
    \/ \E f1 \in FlagBytes, f2 \in FlagBytes, line \in FlagLines :
           flags_send(line, FlagAnswer(f1, f2))
    \/ \E f1 \in FlagBytes, f2 \in FlagBytes, line \in FlagLines :
           flags_query(line, FlagAnswer(f1, f2))

SpecFlags == InitFlags /\ [][NextFlags]_vars

AckBit(frame) == (FlagByte(frame) \div 2) % 2 = 1

ResponseBit(frame) == FlagByte(frame) % 2 = 1

\* C31 as stated: a send accepts a frame as acknowledged whenever its ACK
\* flag bit (bit1) is set, and a query accepts a frame as a response whenever
\* its RESPONSE flag bit (bit0) is set, whatever the other flag bits: the
\* frame ends the exchange without a further read and without a device error.
C31_FlagBitsAccepted ==
    \A i \in 1..Len(xfers) :
        LET x == xfers[i]
            fr == FramesRead(x)
        IN  /\ (x.kind = "send" /\ Len(fr) >= 1 /\ AckBit(fr[1]))
               => Len(fr) = 1 /\ x.exc = "none"
            /\ (x.kind = "send" /\ Len(fr) >= 2 /\ AckBit(fr[2]))
               => x.exc = "none"
            /\ (x.kind = "query" /\ Len(fr) >= 1 /\ ResponseBit(fr[1]))
               => Len(fr) = 1 /\ x.exc = "none"
            /\ (x.kind = "query" /\ Len(fr) >= 2 /\ ResponseBit(fr[2]))
               => x.exc = "none"

\* C31 (amended): a send accepts a frame as acknowledged exactly when its
\* flag byte (offset 4) equals 3, and a query accepts a frame as a response
\* exactly when its flag byte equals 1; a frame with any other flag byte,
\* the ACK or RESPONSE bit set or not, leads to the second read when it is
\* the first frame and to the device error when it is the second.
C31_FlagByteExact ==
    \A i \in 1..Len(xfers) :
        LET x == xfers[i]
            fr == FramesRead(x)
        IN  /\ (x.kind = "send" /\ Len(fr) >= 1)
               => /\ (FlagByte(fr[1]) = 3) <=> (Len(fr) = 1)
                  /\ Len(fr) = 1 => x.exc = "none"
                  /\ Len(fr) >= 2
                     => /\ Len(fr) = 2
                        /\ (FlagByte(fr[2]) = 3) <=> (x.exc = "none")
                        /\ (FlagByte(fr[2]) # 3) <=> (x.exc = "STS_Error")
            /\ (x.kind = "query" /\ Len(fr) >= 1)
               => /\ (FlagByte(fr[1]) = 1) <=> (Len(fr) = 1)
                  /\ Len(fr) = 1 => x.exc = "none"
                  /\ Len(fr) >= 2
                     => /\ (FlagByte(fr[2]) = 1) <=> (x.exc = "none")
                        /\ (FlagByte(fr[2]) # 1) <=> (x.exc = "STS_Error")

\* a send met a first frame with the ACK bit set among others (flag byte 7),
\* read again and was acknowledged by a frame with flag byte 3
C31_Witness_AckBitNotEnough ==
    /\ call.op = "set_lamp_enable"
    /\ Len(xfers) = 1
    /\ Len(FramesRead(xfers[1])) = 2
    /\ FlagByte(FramesRead(xfers[1])[1]) = 7
    /\ FlagByte(FramesRead(xfers[1])[2]) = 3
    /\ outcome = "return"

----------------------------------------------------------------------------
(* Specification of the payload sends: one call of set_user_string with a   *)
(* string that travels as payload, or of set_irrad_calib                    *)

PayloadStrings == { Str(n) : n \in 16..MaxPayload }

InitPayload ==
    \E f \in ScansFields :
        /\ immediateData = f.immediateData
        /\ immediateDataLength = f.immediateDataLength
        /\ regarding = f.regarding
        /\ bytesRemaining = f.bytesRemaining
        /\ call = Call("idle", <<>>, 0)
        /\ xfers = <<>>
        /\ outcome = "return"
        /\ ret = None
        /\ printed = <<>>
        /\ ncalls = 0
        /\ threads = <<>>

NextPayload ==
    \/ /\ ncalls = 0
       /\ \E stringname \in PayloadStrings, line \in Lines, resp \in DevAnswers :
              set_user_string(stringname, 1, line, resp)
    \/ /\ ncalls = 0
       /\ \E calibration \in CalibArgs, line \in Lines, resp \in DevAnswers :
              set_irrad_calib(calibration, line, resp)

SpecPayload == InitPayload /\ [][NextPayload]_vars

\* C32: a send with an extended payload whose frame has k blocks performs
\* exactly k writes, each of exactly 64 bytes, in increasing block order
\* (block i is frame bytes 64i .. 64i+63), and all k writes happen before the
\* first read of the exchange.  (The send is one whose transfers go through:
\* valid line, device attached.)
C32_PayloadBlocksInOrder ==
    \A i \in 1..Len(xfers) :
        LET x == xfers[i]
        IN  (x.kind = "send" /\ x.data # None /\ x.exc \in {"none", "STS_Error"})
            => LET frame == x.packet[1]
                   k == Len(frame) \div 64
               IN  /\ Len(frame) = 64 * k
                   /\ Len(Writes(x.io)) = k
                   /\ Len(x.io) > k
                   /\ \A b \in 1..k :
                        /\ x.io[b].t = "write"
                        /\ Len(x.io[b].bytes) = 64
                        /\ \A j \in 1..64 : x.io[b].bytes[j] = frame[64 * (b - 1) + j]
                   /\ \A e \in (k + 1)..Len(x.io) : x.io[e].t = "read"

\* a payload of 66 bytes went out as three blocks and was acknowledged
C32_Witness_ThreeBlocksWritten ==
    /\ call.op = "set_user_string"
    /\ Len(xfers) = 1
    /\ xfers[1].exc = "none"
    /\ Len(xfers[1].data[1]) = 66
    /\ Len(Writes(xfers[1].io)) = 3
    /\ Writes(xfers[1].io)[3].bytes # Writes(xfers[1].io)[1].bytes

\* C33: one call of set_irrad_calib or set_hot_pixel_index with N >= 1 values
\* performs exactly one send exchange (one frame written, then the
\* acknowledgment read), and that frame carries all N encoded values.
C33_OneExchangeAllValues ==
    (call.op \in {"set_irrad_calib", "set_hot_pixel_index"}
     /\ Len(call.args[1]) >= 1 /\ outcome = "return")
    => LET values == call.args[1]
           n == Len(values)
           width == IF call.op = "set_irrad_calib" THEN 4 ELSE 2
           asPayload == call.op = "set_irrad_calib" \/ width * n > 16
       IN  /\ Len(xfers) = 1
           /\ xfers[1].kind = "send"
           /\ Len(Reads(xfers[1].io)) >= 1
           /\ IF asPayload
              THEN xfers[1].data = Some(EncodedPrefix(values, n, width))
              ELSE /\ xfers[1].packet[1][24] = width * n
                   /\ SubSeq(xfers[1].packet[1], 25, 24 + width * n)
                          = EncodedPrefix(values, n, width)

----------------------------------------------------------------------------
(* Specification of _external_read: one call on a RESPONSE frame that       *)
(* announces B bytes, every read returning one block of 64 bytes            *)

\* bytes-remaining values above the default 20 that the blocks the device has
\* ready can serve
ExternalRange == 21..(64 * (Len(DevBlocks) + 1) - 1)

InitExternal ==
    /\ immediateData = defaults.immediateData
    /\ immediateDataLength = defaults.immediateDataLength
    /\ regarding = defaults.regarding
    /\ bytesRemaining = defaults.bytesRemaining
    /\ call = Call("idle", <<>>, 0)
    /\ xfers = <<>>
    /\ outcome = "return"
    /\ ret = None
    /\ printed = <<>>
    /\ ncalls = 0
    /\ threads = <<>>

external_read_call(line, bytes_for_reading) ==
    LET read == DevFrame(1, 0, 0, bytes_for_reading)
        ext == external_read(line, read, bytes_for_reading, DevBlocks)
    IN  /\ ncalls = 0
        /\ Done(Call("_external_read", <<bytes_for_reading>>, line), Self,
                <<Xfer("external", 0, line, None, None,
                       <<read_device(line, read)>> \o ext.io, ext.exc, <<>>, None)>>,
                IF ext.exc = "none" THEN "return" ELSE ext.exc,
                IF ext.exc = "none" THEN Some(ext.data) ELSE None, <<>>)

NextExternal ==
    \E line \in FlagLines, bytes_for_reading \in ExternalRange :
        external_read_call(line, bytes_for_reading)

SpecExternal == InitExternal /\ [][NextExternal]_vars

RECURSIVE TotalBytes(_)
\* the number of bytes the reads in evs delivered
TotalBytes(evs) ==
    IF evs = <<>> THEN 0 ELSE Len(evs[1].bytes) + TotalBytes(Tail(evs))

\* C34: in _external_read, for every bytes-remaining value B > 20 and given
\* that every read returns exactly 64 bytes, every index used to copy payload
\* (44 .. 44 + 64*floor(B/64) - 1) lies inside the accumulated buffer of
\* 64 + 64*floor(B/64) bytes; the copy never reads past the data received.
C34_CopyInsideBuffer ==
    call.op = "_external_read"
    => LET B == call.args[1]
           idx == external_indices(B \div 64)
           received == TotalBytes(Reads(xfers[1].io))
       IN  /\ received = 64 + 64 * (B \div 64)
           /\ \A ll \in 1..Len(idx) :
                /\ idx[ll] >= 44
                /\ idx[ll] <= 44 + 64 * (B \div 64) - 1
                /\ idx[ll] < received
           /\ outcome = "return"
           /\ Len(ret[1]) = 64 * (B \div 64)

\* B = 255: three more blocks read, 192 bytes copied from indices 44..235 of
\* the 256 received
C34_Witness_ThreeBlocksCopied ==
    /\ call.op = "_external_read"
    /\ call.args[1] = 255
    /\ Len(xfers[1].io) = 4
    /\ Len(ret[1]) = 192
    /\ ret[1][192] = DevBlocks[3][44]

----------------------------------------------------------------------------
(* The command catalog: the code each set operation hands to               *)
(* _send_command_to_device                                                  *)

SetCommands ==
    { <<"set_alias", 528>>,
      <<"set_user_string", 784>>,
      <<"configure_status_led", 4112>>,
      <<"set_integration_time", 1114128>>,
      <<"set_trigger_mode", 1114384>>,
      <<"set_pixel_binning_factor", 1114768>>,
      <<"set_default_binning_factor", 1114768>>,
      <<"set_lamp_enable", 1115152>>,
      <<"set_trigger_delay", 1115408>>,
      <<"set_scans_to_avg", 1179664>>,
      <<"set_boxcar", 1183760>>,
      <<"set_wav_coeff", 1573137>>,
      <<"set_nonlin_coeff", 1577233>>,
      <<"set_irrad_calib", 1597456>>,
      <<"set_irrad_calib_area", 1581073>>,
      <<"set_stray_light_coeff", 1585425>>,
      <<"set_hot_pixel_index", 1597456>> }

SetOperations == { e[1] : e \in SetCommands }

\* C35: no two distinct set operations of the command catalog write the same
\* command code to the device: the code in a frame a set operation wrote is
\* its own entry of the catalog and the entry of no other set operation.
C35_SetCommandsDistinct ==
    \A i \in 1..Len(xfers) :
        LET x == xfers[i]
        IN  (call.op \in SetOperations /\ x.kind = "send" /\ Len(Writes(x.io)) >= 1)
            => /\ <<call.op, x.command>> \in SetCommands
               /\ SubSeq(Writes(x.io)[1].bytes, 9, 12) = pack_I(x.command)
               /\ \A e \in SetCommands : e[2] = x.command => e[1] = call.op

====
